---- MODULE Spec2Model ----
(***************************************************************************)
(* A model of ssmenv: a walker over the paths of a parameter store         *)
(* (cloudsecrets.generateAWSParameters, ssmenv.processParameters) and the  *)
(* emitters that render the parameters (directory tree, env file, INI,     *)
(* Java properties).                                                       *)
(*                                                                         *)
(* Strings are sequences of one-character strings, so that slicing,        *)
(* regular expressions, path operations and quoting are computed the way   *)
(* the code computes them.  A filesystem path, once resolved by realpath,  *)
(* is the sequence of its segments (<<>> is "/").                          *)
(***************************************************************************)
EXTENDS Integers, Sequences, FiniteSets, TLC

VARIABLES
    pc,         \* position of the consumer loop: "run", "done", "crashed"
    count,      \* parameters delivered to the emitter so far
    log,        \* sequence of log records [level, msg, arg]
    fs,         \* directory style: the filesystem, path -> node
    touched,    \* directory style: every path created, written or renamed to
    last,       \* directory style: what the last loop iteration saw and did
    style,      \* stream styles: the --style argument
    fh,         \* stream styles: the text written to the output handle
    config,     \* ini: the ConfigParser contents (ordered sections)
    props,      \* java: the Properties contents (ordered keys)
    delivered,  \* the (param, basePath) pairs delivered to the emitter so far
    impl,       \* walker: which source file's walker runs
    paths,      \* walker: the input paths
    pathIdx,    \* walker: index of the current input path
    path,       \* walker: the normalised current path
    nextToken,  \* walker: the continuation token
    wpc,        \* walker: "path", "request", "page", "done", "raised"
    response,   \* walker: the page being iterated
    pos,        \* walker: index of the next entry of the page
    requests,   \* walker: every request sent to the store
    served,     \* walker: the store's answer to each request
    yielded     \* walker: every (param, path) handed to the consumer

vars == <<pc, count, log, fs, touched, last, style, fh, config, props, delivered,
          impl, paths, pathIdx, path, nextToken, wpc, response, pos, requests,
          served, yielded>>

dirVars == <<fs, touched, last>>
streamVars == <<style, fh, config, props, delivered>>
walkVars == <<impl, paths, pathIdx, path, nextToken, wpc, response, pos, requests,
              served, yielded>>

-----------------------------------------------------------------------------
(* Bounds *)

\* parameters delivered to an emitter in one run
MaxParams == 3
\* requests the walker sends in one run
MaxRequests == 3

-----------------------------------------------------------------------------
(* Strings *)

None == "<None>"

Range(s) == {s[i] : i \in 1..Len(s)}

IsPrefix(s, t) == Len(s) <= Len(t) /\ SubSeq(t, 1, Len(s)) = s

\* s[n:] of Python, n counted from 0
Slice(s, n) == IF n >= Len(s) THEN <<>> ELSE SubSeq(s, n + 1, Len(s))

startswith(s, c) == Len(s) > 0 /\ s[1] = c

endswith(s, c) == Len(s) > 0 /\ s[Len(s)] = c

\* index of the first c in s, 0 when there is none
RECURSIVE Find(_, _, _)
Find(s, c, i) ==
    IF i > Len(s) THEN 0
    ELSE IF s[i] = c THEN i
    ELSE Find(s, c, i + 1)

\* index of the last c in s, 0 when there is none
RECURSIVE RFind(_, _, _)
RFind(s, c, i) ==
    IF i < 1 THEN 0
    ELSE IF s[i] = c THEN i
    ELSE RFind(s, c, i - 1)

\* s.split(c)
RECURSIVE Split(_, _)
Split(s, c) ==
    LET i == Find(s, c, 1) IN
    IF i = 0 THEN <<s>>
    ELSE <<SubSeq(s, 1, i - 1)>> \o Split(SubSeq(s, i + 1, Len(s)), c)

\* s.replace(a, b) for a single character a and a string b
RECURSIVE Replace(_, _, _)
Replace(s, a, b) ==
    IF s = <<>> THEN <<>>
    ELSE (IF s[1] = a THEN b ELSE <<s[1]>>) \o Replace(Tail(s), a, b)

RECURSIVE Flatten(_)
Flatten(ss) == IF ss = <<>> THEN <<>> ELSE ss[1] \o Flatten(Tail(ss))

Lower == {"a", "b", "c", "d", "e", "f", "g", "h", "i", "j", "k", "l", "m",
          "n", "o", "p", "q", "r", "s", "t", "u", "v", "w", "x", "y", "z"}
Upper == {"A", "B", "C", "D", "E", "F", "G", "H", "I", "J", "K", "L", "M",
          "N", "O", "P", "Q", "R", "S", "T", "U", "V", "W", "X", "Y", "Z"}
Digit == {"0", "1", "2", "3", "4", "5", "6", "7", "8", "9"}

-----------------------------------------------------------------------------
(* os.path on POSIX, for a tree without symbolic links *)

\* path.join(a, b)
join(a, b) ==
    IF startswith(b, "/") THEN b
    ELSE IF a = <<>> \/ endswith(a, "/") THEN a \o b
    ELSE a \o <<"/">> \o b

\* the segments a resolved path is made of, folding "", "." and ".."
RECURSIVE Resolve(_, _)
Resolve(acc, segs) ==
    IF segs = <<>> THEN acc
    ELSE LET s == Head(segs) IN
         IF s = <<>> \/ s = <<".">> THEN Resolve(acc, Tail(segs))
         ELSE IF s = <<".", ".">>
              THEN Resolve(IF acc = <<>> THEN <<>> ELSE SubSeq(acc, 1, Len(acc) - 1),
                           Tail(segs))
              ELSE Resolve(Append(acc, s), Tail(segs))

\* path.realpath(p) of an absolute p, as its segments
realpath(p) == Resolve(<<>>, Split(p, "/"))

\* path.commonpath([a, b]) of two resolved paths
RECURSIVE commonpath(_, _)
commonpath(a, b) ==
    IF a = <<>> \/ b = <<>> \/ Head(a) # Head(b) THEN <<>>
    ELSE <<Head(a)>> \o commonpath(Tail(a), Tail(b))

\* path.dirname(p) of a resolved path
dirname(p) == IF p = <<>> THEN <<>> ELSE SubSeq(p, 1, Len(p) - 1)

-----------------------------------------------------------------------------
(* The filesystem: a function from the existing paths to their nodes *)

Dir == [kind |-> "dir", content |-> <<>>]
File(v) == [kind |-> "file", content |-> v]

exists(f, p) == p \in DOMAIN f
isdir(f, p) == p \in DOMAIN f /\ f[p].kind = "dir"
isfile(f, p) == p \in DOMAIN f /\ f[p].kind = "file"

Put(f, p, node) == [q \in DOMAIN f \cup {p} |-> IF q = p THEN node ELSE f[q]]
Remove(f, p) == [q \in DOMAIN f \ {p} |-> f[q]]

\* os.rename(src, dst) of something that is no directory
rename_ok(f, src, dst) ==
    /\ isfile(f, src)
    /\ isdir(f, dirname(dst))
    /\ ~isdir(f, dst)
rename(f, src, dst) == Put(Remove(f, src), dst, f[src])

\* os.mkdir(p)
mkdir_ok(f, p) == ~exists(f, p) /\ isdir(f, dirname(p))
mkdir(f, p) == Put(f, p, Dir)

\* open(p, 'wt') followed by write(v)
open_ok(f, p) == ~isdir(f, p) /\ isdir(f, dirname(p))
write(f, p, v) == Put(f, p, File(v))

\* f"{name}.{uuid4()}": the last segment of name with a fresh suffix
value_name(name) ==
    SubSeq(name, 1, Len(name) - 1) \o <<name[Len(name)] \o <<".", "uuid4">>>>

DotValue == <<".", "v", "a", "l", "u", "e">>

-----------------------------------------------------------------------------
(* cloudsecrets.makedirs(name, exist_ok=True)                               *)
(* The result is the filesystem, the paths touched and the exception that  *)
(* leaves the call ("" when it returns).                                   *)

Returned(f, t) == [fs |-> f, touched |-> t, raised |-> ""]
Raised(f, t, e) == [fs |-> f, touched |-> t, raised |-> e]

\* lines 131-145: the rename aside, the mkdir and the rename to ".value"
makedirs_leaf(f, t, name) ==
    IF isdir(f, name)
    THEN \* value_name stays None; os.mkdir raises FileExistsError, which the
         \* handler swallows because exist_ok and path.isdir(name)
         Returned(f, t)
    ELSE LET vn == value_name(name) IN
         IF ~rename_ok(f, name, vn)
         THEN \* os.rename raises; name is no directory, so the handler re-raises
              Raised(f, t, IF exists(f, dirname(name))
                           THEN "FileNotFoundError" ELSE "NotADirectoryError")
         ELSE LET f2 == rename(f, name, vn)
                  t2 == t \cup {vn}
              IN IF ~mkdir_ok(f2, name)
                 THEN Raised(f2, t2, "OSError")
                 ELSE LET f3 == mkdir(f2, name)
                          t3 == t2 \cup {name}
                          dv == Append(name, DotValue)
                      IN IF ~rename_ok(f3, vn, dv)
                         THEN Raised(f3, t3, "OSError")
                         ELSE Returned(rename(f3, vn, dv), t3 \cup {dv})

RECURSIVE makedirs(_, _, _)
makedirs(f, t, name) ==
    LET head == dirname(name)
        \* path.split gives an empty tail for "/" alone
        up == IF name # <<>> /\ ~isdir(f, head)
              THEN makedirs(f, t, head)
              ELSE Returned(f, t)
    IN IF up.raised \notin {"", "FileExistsError"}
       THEN up
       ELSE makedirs_leaf(up.fs, up.touched, name)

-----------------------------------------------------------------------------
(* cloudsecrets.processDirParameters(params, outputDir)                     *)

\* the --output argument and a directory beside it
OutputArg == <<"/", "o">>
outputDir == realpath(OutputArg)
Outside == <<<<"e">>>>

\* the string a resolved path stands for
pathstr(p) == IF p = <<>> THEN <<"/">>
              ELSE Flatten([i \in 1..Len(p) |-> <<"/">> \o p[i]])

\* lines 207-209: the traversal guard
escaped(filename) == commonpath(outputDir, filename) # outputDir

NoLast == [status |-> "none", name |-> <<>>, filename |-> <<>>, value |-> <<>>,
           preKind |-> "none", preValue |-> <<>>]

kindOf(f, p) == IF exists(f, p) THEN f[p].kind ELSE "absent"

\* one iteration of the loop of lines 204-231
DirIteration(f, t, lg, param, basePath) ==
    LET name == Slice(param.Name, Len(basePath) + 1)
        filename == realpath(join(pathstr(outputDir), name))
        filedir == dirname(filename)
        seen == [status |-> "none", name |-> name, filename |-> filename,
                 value |-> param.Value,
                 preKind |-> kindOf(f, filedir),
                 preValue |-> IF isfile(f, filedir) THEN f[filedir].content ELSE <<>>]
        made == makedirs(f, t, filedir)
        unable == [level |-> "ERROR", msg |-> "Unable to create", arg |-> filename]
    IN IF escaped(filename)
       THEN [fs |-> f, touched |-> t,
             log |-> Append(lg, [level |-> "ERROR", msg |-> "escaped output directory",
                                 arg |-> filename]),
             last |-> [seen EXCEPT !.status = "escaped"]]
       ELSE IF made.raised # ""
       THEN [fs |-> made.fs, touched |-> made.touched, log |-> Append(lg, unable),
             last |-> [seen EXCEPT !.status = "failed"]]
       ELSE IF ~open_ok(made.fs, filename)
       THEN [fs |-> made.fs, touched |-> made.touched, log |-> Append(lg, unable),
             last |-> [seen EXCEPT !.status = "failed"]]
       ELSE [fs |-> write(made.fs, filename, param.Value),
             touched |-> made.touched \cup {filename}, log |-> lg,
             last |-> [seen EXCEPT !.status = "written"]]

\* what the store can hold under a base path: [base, rel], Name = base/rel
DirEntries ==
    { [base |-> <<"/", "p">>, rel |-> r] : r \in
        { <<"a">>,
          <<"a", "/", "c">>,
          <<"a", "/", "c", "/", "c">>,
          <<"a", "/">> \o DotValue,
          <<"d", "/", "a">>,
          <<".">>,
          <<"a", "/", ".", ".">>,
          <<"a", "/", ".", ".", "/", ".", ".", "/", "e", "/", "p">>,
          <<"/", "e", "/", "p">>,
          <<".", ".", "/", "o", "o">>,
          <<".", ".", "/", "o", "/", "a">> } }
    \cup { [base |-> <<>>, rel |-> <<"a">>] }

DirValues == { <<"v">>, <<"w">> }

NoStream == [style |-> "file", fh |-> <<>>, config |-> <<>>, props |-> <<>>,
             delivered |-> <<>>]
NoWalk == [impl |-> "none", paths |-> <<>>, pathIdx |-> 0, path |-> <<>>,
           nextToken |-> None, wpc |-> "none", response |-> <<>>, pos |-> 0,
           requests |-> <<>>, served |-> <<>>, yielded |-> <<>>]

StreamIdle ==
    /\ style = NoStream.style /\ fh = NoStream.fh /\ config = NoStream.config
    /\ props = NoStream.props /\ delivered = NoStream.delivered
WalkIdle ==
    /\ impl = NoWalk.impl /\ paths = NoWalk.paths /\ pathIdx = NoWalk.pathIdx
    /\ path = NoWalk.path /\ nextToken = NoWalk.nextToken /\ wpc = NoWalk.wpc
    /\ response = NoWalk.response /\ pos = NoWalk.pos /\ requests = NoWalk.requests
    /\ served = NoWalk.served /\ yielded = NoWalk.yielded

\* the trees a run can start from: the output root absent, an empty directory,
\* or a directory holding a subdirectory d; its parent and /e always exist
InitialTrees ==
    LET base == [p \in {<<>>} \cup {Outside} |-> Dir] IN
    { base,
      Put(base, outputDir, Dir),
      Put(Put(base, outputDir, Dir), Append(outputDir, <<"d">>), Dir) }

InitDir ==
    /\ pc = "run" /\ count = 0 /\ log = <<>>
    /\ fs \in InitialTrees
    /\ touched = {}
    /\ last = NoLast
    /\ StreamIdle /\ WalkIdle

\* the generator yields a parameter and the loop body handles it
processDirParameters ==
    /\ pc = "run" /\ count < MaxParams
    /\ \E e \in DirEntries, v \in DirValues :
         LET param == [Name |-> e.base \o <<"/">> \o e.rel, Value |-> v]
             r == DirIteration(fs, touched, log, param, e.base)
         IN /\ fs' = r.fs
            /\ touched' = r.touched
            /\ log' = r.log
            /\ last' = r.last
            /\ delivered' = Append(delivered,
                                   [Name |-> param.Name, Value |-> v, base |-> e.base])
    /\ count' = count + 1
    /\ UNCHANGED <<pc, style, fh, config, props, walkVars>>

\* the generator is exhausted and the loop ends
processDirParameters_end ==
    /\ pc = "run"
    /\ pc' = "done"
    /\ UNCHANGED <<count, log, dirVars, streamVars, walkVars>>

NextDir == processDirParameters \/ processDirParameters_end

SpecDir == InitDir /\ [][NextDir]_vars

-----------------------------------------------------------------------------
(* Regular expressions of cloudsecrets.py *)

\* "$" matches at the end of the string and before a final newline
AtEnd(s, i) == i = Len(s) + 1 \/ (i = Len(s) /\ s[i] = "\n")

\* the index after the longest run of characters of cls that starts at i
RECURSIVE RunEnd(_, _, _)
RunEnd(s, i, cls) ==
    IF i <= Len(s) /\ s[i] \in cls THEN RunEnd(s, i + 1, cls) ELSE i

\* a group that took no part in the match is empty
NoGroup == <<>>
NoMatch == [matched |-> FALSE, section |-> NoGroup, name |-> <<>>]
Match(sec, nm) == [matched |-> TRUE, section |-> sec, name |-> nm]

EnvFirst == Lower \cup Upper \cup {"_"}
EnvRest == Lower \cup Upper \cup Digit \cup {"_"}

\* r'/(?P<name>[a-zA-Z_][a-zA-Z_0-9]*)$' tried at index i
EnvMatchAt(s, i) ==
    IF i + 1 <= Len(s) /\ s[i] = "/" /\ s[i + 1] \in EnvFirst
    THEN LET e == RunEnd(s, i + 2, EnvRest) IN
         IF AtEnd(s, e) THEN Match(NoGroup, SubSeq(s, i + 1, e - 1)) ELSE NoMatch
    ELSE NoMatch

\* the pattern without its "$": the first segment that starts like a name
RECURSIVE ENV_PARAMETER_NAME_RE_unanchored(_)
ENV_PARAMETER_NAME_RE_unanchored(s) ==
    IF Len(s) < 2 THEN NoMatch
    ELSE IF s[1] = "/" /\ s[2] \in EnvFirst
    THEN Match(NoGroup, SubSeq(s, 2, RunEnd(s, 3, EnvRest) - 1))
    ELSE ENV_PARAMETER_NAME_RE_unanchored(Tail(s))

\* ENV_PARAMETER_NAME_RE.search(s): the leftmost index that matches
RECURSIVE EnvSearchFrom(_, _)
EnvSearchFrom(s, i) ==
    IF i > Len(s) THEN NoMatch
    ELSE IF EnvMatchAt(s, i).matched THEN EnvMatchAt(s, i)
    ELSE EnvSearchFrom(s, i + 1)

ENV_PARAMETER_NAME_RE(s) == EnvSearchFrom(s, 1)

IniClass == Lower \cup Upper \cup Digit \cup {"_", "-"}

\* INI_PARAMETER_NAME_RE.search(s):
\* r'^/(?:(?P<section>[a-zA-Z0-9_-]+)[./])?(?P<name>[a-zA-Z0-9_-]+)$'
INI_PARAMETER_NAME_RE(s) ==
    IF ~startswith(s, "/") THEN NoMatch
    ELSE LET e1 == RunEnd(s, 2, IniClass) IN
         IF e1 = 2 THEN NoMatch
         ELSE IF AtEnd(s, e1) THEN Match(NoGroup, SubSeq(s, 2, e1 - 1))
         ELSE IF s[e1] \in {".", "/"}
              THEN LET e2 == RunEnd(s, e1 + 1, IniClass) IN
                   IF e2 > e1 + 1 /\ AtEnd(s, e2)
                   THEN Match(SubSeq(s, 2, e1 - 1), SubSeq(s, e1 + 1, e2 - 1))
                   ELSE NoMatch
              ELSE NoMatch

\* JAVA_PARAMETER_NAME_RE.search(s): r'^/(?P<name>.+)$', "." matching no newline
JAVA_PARAMETER_NAME_RE(s) ==
    IF ~startswith(s, "/") THEN NoMatch
    ELSE LET e == Find(s, "\n", 2)
             stop == IF e = 0 THEN Len(s) + 1 ELSE e
         IN IF stop > 2 /\ AtEnd(s, stop)
            THEN Match(NoGroup, SubSeq(s, 2, stop - 1))
            ELSE NoMatch

-----------------------------------------------------------------------------
(* shlex.quote *)

ShellSafe == Lower \cup Upper \cup Digit \cup {"_", "@", "%", "+", "=", ":", ",", ".", "/", "-"}

\* quoting that leaves an embedded quote as it is
shlex_quote_unescaped(v) ==
    IF v = <<>> THEN <<"'", "'">>
    ELSE IF Range(v) \subseteq ShellSafe THEN v
    ELSE <<"'">> \o v \o <<"'">>

shlex_quote(v) ==
    IF v = <<>> THEN <<"'", "'">>
    ELSE IF Range(v) \subseteq ShellSafe THEN v
    ELSE <<"'">> \o Replace(v, "'", <<"'", "\"", "'", "\"", "'">>) \o <<"'">>

-----------------------------------------------------------------------------
(* cloudsecrets.processEnvParameters(params, fh, style): lines 244-270 *)

ENV_STYLES == {"bash", "dotenv", "docker"}

Warning(msg, name) == [level |-> "WARNING", msg |-> msg, arg |-> name]

\* lines 250-253 and 267-270: what is written for an accepted parameter
EnvText(param, name, st) ==
    LET value == IF st \in {"bash", "dotenv"} THEN shlex_quote(param.Value)
                 ELSE param.Value
    IN <<"#", " ">> \o param.Name \o <<"\n">>
       \o (IF st = "bash" THEN <<"e", "x", "p", "o", "r", "t", " ">> ELSE <<>>)
       \o name \o <<"=">> \o value \o <<"\n">>

\* one iteration of the loop: the stream and the log afterwards
EnvIteration(out, lg, param, st) ==
    LET m == ENV_PARAMETER_NAME_RE(param.Name) IN
    IF ~m.matched
    THEN [fh |-> out,
          log |-> Append(lg, Warning("skipping parameter because of invalid bash name",
                                     param.Name))]
    ELSE [fh |-> out \o EnvText(param, m.name, st), log |-> lg]

-----------------------------------------------------------------------------
(* configparser.ConfigParser as processINIParameters uses it.  The contents *)
(* are the sections in insertion order, each with its options in insertion  *)
(* order.                                                                   *)

\* str.lower, ConfigParser.optionxform
LowerOf(c) ==
    CASE c = "A" -> "a" [] c = "B" -> "b" [] c = "C" -> "c" [] c = "D" -> "d"
      [] c = "E" -> "e" [] c = "F" -> "f" [] c = "G" -> "g" [] c = "H" -> "h"
      [] c = "I" -> "i" [] c = "J" -> "j" [] c = "K" -> "k" [] c = "L" -> "l"
      [] c = "M" -> "m" [] c = "N" -> "n" [] c = "O" -> "o" [] c = "P" -> "p"
      [] c = "Q" -> "q" [] c = "R" -> "r" [] c = "S" -> "s" [] c = "T" -> "t"
      [] c = "U" -> "u" [] c = "V" -> "v" [] c = "W" -> "w" [] c = "X" -> "x"
      [] c = "Y" -> "y" [] c = "Z" -> "z" [] OTHER -> c

optionxform(name) == [i \in 1..Len(name) |-> LowerOf(name[i])]

\* value.replace('%%', '')
RECURSIVE StripPercentPairs(_)
StripPercentPairs(v) ==
    IF v = <<>> THEN <<>>
    ELSE IF Len(v) >= 2 /\ v[1] = "%" /\ v[2] = "%" THEN StripPercentPairs(Slice(v, 2))
    ELSE <<v[1]>> \o StripPercentPairs(Tail(v))

\* BasicInterpolation.before_set raises ValueError for a "%" that is neither
\* doubled nor part of a %(name)s reference (no value here holds a "(")
before_set_raises(value) == "%" \in Range(StripPercentPairs(value))

SectionIndex(cfg, section) ==
    LET hits == {i \in 1..Len(cfg) : cfg[i].name = section} IN
    IF hits = {} THEN 0 ELSE CHOOSE i \in hits : TRUE

OptionIndex(items, key) ==
    LET hits == {i \in 1..Len(items) : items[i].key = key} IN
    IF hits = {} THEN 0 ELSE CHOOSE i \in hits : TRUE

\* an assignment that keeps the value a key already holds
SetItem_keeps_first(items, key, value) ==
    IF OptionIndex(items, key) = 0 THEN Append(items, [key |-> key, value |-> value])
    ELSE items

\* a dict assignment: the value replaces the one held, or a new key is appended
SetItem(items, key, value) ==
    LET i == OptionIndex(items, key) IN
    IF i = 0 THEN Append(items, [key |-> key, value |-> value])
    ELSE [items EXCEPT ![i].value = value]

\* lines 304-306: config[section] = {} when missing, config[section][name] = value
ConfigSet(cfg, section, name, value) ==
    LET c1 == IF SectionIndex(cfg, section) = 0
              THEN Append(cfg, [name |-> section, items |-> <<>>])
              ELSE cfg
        i == SectionIndex(c1, section)
    IN [c1 EXCEPT ![i].items = SetItem(c1[i].items, optionxform(name), value)]

RECURSIVE WriteItems(_)
WriteItems(items) ==
    IF items = <<>> THEN <<>>
    ELSE items[1].key \o <<" ", "=", " ">>
         \o Replace(items[1].value, "\n", <<"\n", "\t">>) \o <<"\n">>
         \o WriteItems(Tail(items))

\* config.write(fh), line 308
RECURSIVE ConfigWrite(_)
ConfigWrite(cfg) ==
    IF cfg = <<>> THEN <<>>
    ELSE <<"[">> \o cfg[1].name \o <<"]", "\n">> \o WriteItems(cfg[1].items) \o <<"\n">>
         \o ConfigWrite(Tail(cfg))

MainSection == <<"m", "a", "i", "n">>

\* one iteration of the loop of lines 282-306
INIIteration(cfg, lg, param, basePath) ==
    LET paramPath == Slice(param.Name, Len(basePath))
        m == INI_PARAMETER_NAME_RE(paramPath)
        section == IF m.section # NoGroup THEN m.section ELSE MainSection
    IN IF ~m.matched
       THEN [config |-> cfg, raised |-> FALSE,
             log |-> Append(lg, Warning("skipping parameter because of invalid ini name",
                                        param.Name))]
       ELSE IF before_set_raises(param.Value)
       THEN [config |-> IF SectionIndex(cfg, section) = 0
                        THEN Append(cfg, [name |-> section, items |-> <<>>])
                        ELSE cfg,
             raised |-> TRUE, log |-> lg]
       ELSE [config |-> ConfigSet(cfg, section, m.name, param.Value),
             raised |-> FALSE, log |-> lg]

-----------------------------------------------------------------------------
(* jproperties.Properties as processJavaParameters uses it *)

\* backslash escapes of the .properties format for the characters of a key
RECURSIVE EscapeKey(_)
EscapeKey(k) ==
    IF k = <<>> THEN <<>>
    ELSE (IF k[1] \in {"\\", " ", "=", ":", "#", "!"} THEN <<"\\", k[1]>> ELSE <<k[1]>>)
         \o EscapeKey(Tail(k))

\* in a value a backslash and a leading space are escaped
EscapeValue(v) ==
    (IF startswith(v, " ") THEN <<"\\">> ELSE <<>>) \o Replace(v, "\\", <<"\\", "\\">>)

RECURSIVE StoreItems(_)
StoreItems(items) ==
    IF items = <<>> THEN <<>>
    ELSE EscapeKey(items[1].key) \o <<"=">> \o EscapeValue(items[1].value) \o <<"\n">>
         \o StoreItems(Tail(items))

\* props.store(fh, encoding="utf-8"), line 343: a timestamp comment, then the keys
PropsStore(items) == <<"#", "timestamp", "\n">> \o StoreItems(items)

\* one iteration of the loop of lines 320-341
JavaIteration(items, lg, param, basePath) ==
    LET paramPath == Slice(param.Name, Len(basePath))
        m == JAVA_PARAMETER_NAME_RE(paramPath)
    IN IF ~m.matched
       THEN [props |-> items,
             log |-> Append(lg, Warning(
                 "skipping parameter because of invalid Java property name", param.Name))]
       ELSE [props |-> SetItem(items, Replace(m.name, "/", <<".">>), param.Value),
             log |-> lg]

-----------------------------------------------------------------------------
(* The stream styles: cloudsecrets.py lines 369-375 hand the generator to one *)
(* emitter, which consumes it parameter by parameter.                        *)

INI_STYLES == {"ini"}
JAVA_STYLES == {"java"}

\* parameters delivered to a stream emitter in one run
MaxStreamParams == 2

\* what the walker can deliver: a parameter Name and the base path it was
\* found under (the store answers with names below the requested path)
StreamEntries ==
    { [base |-> <<"/", "a">>, rel |-> r] : r \in
        { <<"/", "k">>,
          <<"/", "s", ".", "k">>,
          <<"/", "s", "/", "k">>,
          <<"/", "s", ".", "K">>,
          <<"/", "K">>,
          <<"/", "1", "k">>,
          <<"/", "s", "/", "t", "/", "k">>,
          <<"/">> } }
    \cup { [base |-> <<"/", "b">>, rel |-> <<"/", "k">>] }

StreamValues == { <<"v">>, <<"a", " ", "'", "b">>, <<"5", "%">> }

NoDir == [fs |-> <<>>, touched |-> {}, last |-> NoLast]
DirIdle == fs = NoDir.fs /\ touched = NoDir.touched /\ last = NoDir.last

InitStream ==
    /\ pc = "run" /\ count = 0 /\ log = <<>>
    /\ style \in ENV_STYLES \cup INI_STYLES \cup JAVA_STYLES
    /\ fh = <<>> /\ config = <<>> /\ props = <<>> /\ delivered = <<>>
    /\ DirIdle /\ WalkIdle

Deliver(e, v) == [Name |-> e.base \o e.rel, Value |-> v, base |-> e.base]

processEnvParameters ==
    /\ pc = "run" /\ style \in ENV_STYLES /\ count < MaxStreamParams
    /\ \E e \in StreamEntries, v \in StreamValues :
         LET param == Deliver(e, v)
             r == EnvIteration(fh, log, param, style)
         IN /\ fh' = r.fh
            /\ log' = r.log
            /\ delivered' = Append(delivered, param)
    /\ count' = count + 1
    /\ UNCHANGED <<pc, style, config, props, dirVars, walkVars>>

\* the generator is exhausted; the text written so far is the output
processEnvParameters_end ==
    /\ pc = "run" /\ style \in ENV_STYLES
    /\ pc' = "done"
    /\ UNCHANGED <<count, log, streamVars, dirVars, walkVars>>

processINIParameters ==
    /\ pc = "run" /\ style \in INI_STYLES /\ count < MaxStreamParams
    /\ \E e \in StreamEntries, v \in StreamValues :
         LET param == Deliver(e, v)
             r == INIIteration(config, log, param, e.base)
         IN /\ config' = r.config
            /\ log' = r.log
            /\ pc' = IF r.raised THEN "crashed" ELSE pc
            /\ delivered' = Append(delivered, param)
    /\ count' = count + 1
    /\ UNCHANGED <<style, fh, props, dirVars, walkVars>>

\* line 308: the generator is exhausted and the whole structure is written
processINIParameters_end ==
    /\ pc = "run" /\ style \in INI_STYLES
    /\ fh' = fh \o ConfigWrite(config)
    /\ pc' = "done"
    /\ UNCHANGED <<count, log, style, config, props, delivered, dirVars, walkVars>>

processJavaParameters ==
    /\ pc = "run" /\ style \in JAVA_STYLES /\ count < MaxStreamParams
    /\ \E e \in StreamEntries, v \in StreamValues :
         LET param == Deliver(e, v)
             r == JavaIteration(props, log, param, e.base)
         IN /\ props' = r.props
            /\ log' = r.log
            /\ delivered' = Append(delivered, param)
    /\ count' = count + 1
    /\ UNCHANGED <<pc, style, fh, config, dirVars, walkVars>>

\* line 343: the generator is exhausted and the properties are stored
processJavaParameters_end ==
    /\ pc = "run" /\ style \in JAVA_STYLES
    /\ fh' = fh \o PropsStore(props)
    /\ pc' = "done"
    /\ UNCHANGED <<count, log, style, config, props, delivered, dirVars, walkVars>>

NextStream ==
    \/ processEnvParameters \/ processEnvParameters_end
    \/ processINIParameters \/ processINIParameters_end
    \/ processJavaParameters \/ processJavaParameters_end

SpecStream == InitStream /\ [][NextStream]_vars

-----------------------------------------------------------------------------
(* The walkers: cloudsecrets.generateAWSParameters(paths), a generator, and  *)
(* ssmenv.processParameters(path, fh), which main calls once per path.       *)

Truthy(t) == t \notin {None, ""}

\* cloudsecrets.py lines 164-167
cs_normalize(p) ==
    LET q == IF ~startswith(p, "/") THEN <<"/">> \o p ELSE p IN
    IF endswith(q, "/") THEN SubSeq(q, 1, Len(q) - 1) ELSE q

\* ssmenv.py lines 104-105
ssm_normalize(p) == IF ~startswith(p, "/") THEN <<"/">> \o p ELSE p

\* two entries of the store; the second has no valid shell name
P1 == [Name |-> <<"/", "a", "/", "k">>, Value |-> <<"v">>]
P2 == [Name |-> <<"/", "a", "/", "1", "k">>, Value |-> <<"a", " ", "'", "b">>]

StorePages == { <<>>, <<P1>>, <<P1, P2>> }
StoreTokens == { None, "", "t1", "t2" }

\* what get_parameters_by_path can do: raise, or answer with a page
StoreAnswers ==
    { [ok |-> FALSE, Parameters |-> <<>>, NextToken |-> None] }
    \cup { [ok |-> TRUE, Parameters |-> ps, NextToken |-> t] :
             ps \in StorePages, t \in StoreTokens }

PathLists ==
    { << <<"/", "a">> >>,
      << <<"a">> >>,
      << <<"/">> >>,
      << <<"/", "a", "/">> >>,
      << <<>> >>,
      << <<"/", "a">>, <<"b">> >>,
      << <<"/", "a">>, <<>> >>,
      << <<>>, <<"/", "a">> >> }

Info(msg, arg) == [level |-> "INFO", msg |-> msg, arg |-> arg]
Exception(msg, arg) == [level |-> "ERROR", msg |-> msg, arg |-> arg]

\* a request that never carries the continuation token
Request_without_token(i, pth, token) == [idx |-> i, Path |-> pth, NextToken |-> None]

\* reqParams of lines 173-179 (ssmenv.py 111-117), None for a key left out
Request(i, pth, token) ==
    [idx |-> i, Path |-> pth, NextToken |-> IF Truthy(token) THEN token ELSE None]

InitWalk ==
    /\ pc = "run" /\ count = 0 /\ log = <<>>
    /\ \/ impl = "cloudsecrets" /\ style = NoStream.style
       \/ impl = "ssmenv" /\ style \in ENV_STYLES
    /\ paths \in PathLists
    /\ pathIdx = 1 /\ path = <<>> /\ nextToken = None /\ wpc = "path"
    /\ response = <<>> /\ pos = 0
    /\ requests = <<>> /\ served = <<>> /\ yielded = <<>>
    /\ fh = <<>> /\ config = <<>> /\ props = <<>> /\ delivered = <<>>
    /\ DirIdle

\* cloudsecrets.py lines 161-169: the next input path is taken and normalised;
\* an empty one raises ValueError into the consumer, which ends the generator
generateAWSParameters_path ==
    /\ impl = "cloudsecrets" /\ wpc = "path" /\ pathIdx <= Len(paths)
    /\ IF paths[pathIdx] = <<>>
       THEN /\ wpc' = "raised"
            /\ UNCHANGED <<path, nextToken>>
       ELSE /\ path' = cs_normalize(paths[pathIdx])
            /\ nextToken' = None
            /\ wpc' = "request"
    /\ UNCHANGED <<pc, count, log, dirVars, streamVars, impl, paths, pathIdx,
                   response, pos, requests, served, yielded>>

\* a failure after which the same path is requested again
after_failure_retry(i) == [pathIdx |-> i, wpc |-> "request"]

\* lines 182-184: the exception is caught and "break" leaves the while loop,
\* so the for loop takes the next path
after_failure(i) == [pathIdx |-> i + 1, wpc |-> "path"]

\* lines 171-184: one request; a failure is logged and ends this path only
generateAWSParameters_request ==
    /\ impl = "cloudsecrets" /\ wpc = "request" /\ Len(requests) < MaxRequests
    /\ requests' = Append(requests, Request(pathIdx, path, nextToken))
    /\ \E answer \in StoreAnswers :
         /\ served' = Append(served, answer)
         /\ IF answer.ok
            THEN /\ response' = answer
                 /\ pos' = 1
                 /\ wpc' = "page"
                 /\ log' = Append(log, Info("Getting parameters", path))
                 /\ UNCHANGED pathIdx
            ELSE /\ log' = log \o << Info("Getting parameters", path),
                                     Exception("Unable to process parameters", path) >>
                 /\ pathIdx' = after_failure(pathIdx).pathIdx
                 /\ wpc' = after_failure(pathIdx).wpc
                 /\ UNCHANGED <<response, pos>>
    /\ UNCHANGED <<pc, count, dirVars, streamVars, impl, paths, path, nextToken, yielded>>

\* lines 186-187: the next entry of the page is yielded with the path
generateAWSParameters_yield ==
    /\ impl = "cloudsecrets" /\ wpc = "page" /\ pos <= Len(response.Parameters)
    /\ yielded' = Append(yielded, [idx |-> pathIdx, param |-> response.Parameters[pos],
                                   basePath |-> path])
    /\ pos' = pos + 1
    /\ UNCHANGED <<pc, count, log, dirVars, streamVars, impl, paths, pathIdx, path,
                   nextToken, wpc, response, requests, served>>

\* lines 189-192: the page is finished; without a token the path is finished
generateAWSParameters_token ==
    /\ impl = "cloudsecrets" /\ wpc = "page" /\ pos > Len(response.Parameters)
    /\ nextToken' = response.NextToken
    /\ IF ~Truthy(response.NextToken)
       THEN /\ log' = Append(log, Info("Finished iterating parameters", path))
            /\ pathIdx' = pathIdx + 1
            /\ wpc' = "path"
       ELSE /\ wpc' = "request"
            /\ UNCHANGED <<log, pathIdx>>
    /\ UNCHANGED <<pc, count, dirVars, streamVars, impl, paths, path, response, pos,
                   requests, served, yielded>>

\* line 161: no input path is left and the generator ends
generateAWSParameters_end ==
    /\ impl = "cloudsecrets" /\ wpc = "path" /\ pathIdx > Len(paths)
    /\ wpc' = "done"
    /\ UNCHANGED <<pc, count, log, dirVars, streamVars, impl, paths, pathIdx, path,
                   nextToken, response, pos, requests, served, yielded>>

\* ssmenv.py lines 173-177 and 102-107: main calls processParameters with the
\* next path; the ValueError of an empty path is caught and logged by main
processParameters_path ==
    /\ impl = "ssmenv" /\ wpc = "path" /\ pathIdx <= Len(paths)
    /\ IF paths[pathIdx] = <<>>
       THEN /\ log' = Append(log, Exception("ValueError", paths[pathIdx]))
            /\ pathIdx' = pathIdx + 1
            /\ UNCHANGED <<path, nextToken, wpc>>
       ELSE /\ path' = ssm_normalize(paths[pathIdx])
            /\ nextToken' = None
            /\ wpc' = "request"
            /\ UNCHANGED <<log, pathIdx>>
    /\ UNCHANGED <<pc, count, dirVars, streamVars, impl, paths, response, pos,
                   requests, served, yielded>>

\* ssmenv.py lines 109-118: one request; its exception leaves processParameters
\* and is caught and logged by main (lines 176-177), which takes the next path
processParameters_request ==
    /\ impl = "ssmenv" /\ wpc = "request" /\ Len(requests) < MaxRequests
    /\ requests' = Append(requests, Request(pathIdx, path, nextToken))
    /\ \E answer \in StoreAnswers :
         /\ served' = Append(served, answer)
         /\ IF answer.ok
            THEN /\ response' = answer
                 /\ pos' = 1
                 /\ wpc' = "page"
                 /\ log' = Append(log, Info("Getting parameters", path))
                 /\ UNCHANGED pathIdx
            ELSE /\ log' = log \o << Info("Getting parameters", path),
                                     Exception("StoreError", paths[pathIdx]) >>
                 /\ pathIdx' = pathIdx + 1
                 /\ wpc' = "path"
                 /\ UNCHANGED <<response, pos>>
    /\ UNCHANGED <<pc, count, dirVars, streamVars, impl, paths, path, nextToken, yielded>>

\* ssmenv.py lines 121-146, the same text as processEnvParameters writes
ssm_emit(out, lg, param, st) == EnvIteration(out, lg, param, st)

\* ssmenv.py lines 120-146: the next entry of the page is written to fh
processParameters_param ==
    /\ impl = "ssmenv" /\ wpc = "page" /\ pos <= Len(response.Parameters)
    /\ LET r == ssm_emit(fh, log, response.Parameters[pos], style) IN
         /\ fh' = r.fh
         /\ log' = r.log
    /\ yielded' = Append(yielded, [idx |-> pathIdx, param |-> response.Parameters[pos],
                                   basePath |-> path])
    /\ pos' = pos + 1
    /\ UNCHANGED <<pc, count, dirVars, style, config, props, delivered, impl, paths,
                   pathIdx, path, nextToken, wpc, response, requests, served>>

\* ssmenv.py lines 148-151
processParameters_token ==
    /\ impl = "ssmenv" /\ wpc = "page" /\ pos > Len(response.Parameters)
    /\ nextToken' = response.NextToken
    /\ IF ~Truthy(response.NextToken)
       THEN /\ log' = Append(log, Info("Finished iterating parameters", path))
            /\ pathIdx' = pathIdx + 1
            /\ wpc' = "path"
       ELSE /\ wpc' = "request"
            /\ UNCHANGED <<log, pathIdx>>
    /\ UNCHANGED <<pc, count, dirVars, streamVars, impl, paths, path, response, pos,
                   requests, served, yielded>>

\* ssmenv.py line 173: no input path is left
main_end ==
    /\ impl = "ssmenv" /\ wpc = "path" /\ pathIdx > Len(paths)
    /\ wpc' = "done"
    /\ UNCHANGED <<pc, count, log, dirVars, streamVars, impl, paths, pathIdx, path,
                   nextToken, response, pos, requests, served, yielded>>

NextWalk ==
    \/ generateAWSParameters_path \/ generateAWSParameters_request
    \/ generateAWSParameters_yield \/ generateAWSParameters_token
    \/ generateAWSParameters_end
    \/ processParameters_path \/ processParameters_request
    \/ processParameters_param \/ processParameters_token
    \/ main_end

SpecWalk == InitWalk /\ [][NextWalk]_vars

-----------------------------------------------------------------------------
(* Directory style: claims *)

Inside(p) == IsPrefix(outputDir, p)
StrictlyInside(p) == Inside(p) /\ p # outputDir
Handled == last.status \in {"written", "failed"}
LastLog == IF log = <<>> THEN [level |-> "", msg |-> "", arg |-> <<>>] ELSE log[Len(log)]

\* C1: nothing is created or written outside the output root, and a parameter
\* whose resolved target lies outside the root is rejected with a logged error
\* and skipped while the loop goes on.
C1_NothingOutsideRoot ==
    /\ \A p \in touched : Inside(p)
    /\ (last.status # "none" /\ ~Inside(last.filename)) =>
          /\ last.status = "escaped"
          /\ LastLog.level = "ERROR" /\ LastLog.msg = "escaped output directory"
          /\ pc \in {"run", "done"}

\* The part of C1 that the guard alone decides: a target outside the root is
\* rejected and logged, and whatever is left outside the root when an iteration
\* ends was there before the run.
C1_GuardRejectsAndTreeStaysInside ==
    /\ (last.status # "none" /\ ~Inside(last.filename)) =>
          /\ last.status = "escaped"
          /\ LastLog.level = "ERROR" /\ LastLog.msg = "escaped output directory"
    /\ \A p \in DOMAIN fs : Inside(p) \/ (p \in {<<>>} \cup {Outside} /\ fs[p] = Dir)

\* C2: for a parameter that passes the guard, with the output root a directory
\* and the target below it, every intermediate directory exists afterwards and
\* the target file holds exactly the parameter's Value.
C2_DirectoriesMadeAndValueWritten ==
    (Handled /\ isdir(fs, outputDir) /\ StrictlyInside(last.filename)) =>
        /\ \A n \in 1..(Len(last.filename) - 1) : isdir(fs, SubSeq(last.filename, 1, n))
        /\ isfile(fs, last.filename)
        /\ fs[last.filename].content = last.value

\* C3: when the directory of the target (k) was a regular file holding an earlier
\* value and the parameter k/x is processed, k is a directory afterwards, k/.value
\* holds the earlier value and k/x holds the new one.
C3_CollisionKeepsEarlierValue ==
    (Handled /\ last.preKind = "file") =>
        LET k == dirname(last.filename) IN
        /\ isdir(fs, k)
        /\ isfile(fs, Append(k, DotValue))
        /\ fs[Append(k, DotValue)].content = last.preValue
        /\ isfile(fs, last.filename)
        /\ fs[last.filename].content = last.value

\* C3 holds whenever x is another segment than ".value".
C3_CollisionKeepsEarlierValueUnlessDotValue ==
    (Handled /\ last.preKind = "file"
        /\ last.filename[Len(last.filename)] # DotValue) =>
        LET k == dirname(last.filename) IN
        /\ isdir(fs, k)
        /\ isfile(fs, Append(k, DotValue))
        /\ fs[Append(k, DotValue)].content = last.preValue
        /\ isfile(fs, last.filename)
        /\ fs[last.filename].content = last.value

C3_CollisionHappened ==
    /\ last.status = "written" /\ last.preKind = "file"
    /\ last.filename[Len(last.filename)] # DotValue
    /\ last.preValue # last.value

-----------------------------------------------------------------------------
(* The walkers: claims *)

\* the requests of input path i, in the order sent
ReqsOf(i) == {j \in 1..Len(requests) : requests[j].idx = i}

RECURSIVE SeqOfSet(_)
SeqOfSet(J) ==
    IF J = {} THEN <<>>
    ELSE LET m == CHOOSE x \in J : \A y \in J : x <= y IN <<m>> \o SeqOfSet(J \ {m})

\* the entries of the pages answered to the requests J, page after page
PagesOf(J) == Flatten([n \in 1..Cardinality(J) |-> served[SeqOfSet(J)[n]].Parameters])

RECURSIVE YieldedOf(_, _)
YieldedOf(ys, i) ==
    IF ys = <<>> THEN <<>>
    ELSE (IF ys[1].idx = i THEN <<ys[1].param>> ELSE <<>>) \o YieldedOf(Tail(ys), i)

\* the walk of input path i is over
PathFinished(i) == i \in 1..Len(paths) /\ (pathIdx > i \/ wpc = "done")

AllAnswered(J) == \A j \in J : j <= Len(served) /\ served[j].ok

\* C4: for a path whose requests were all answered, one request was sent per
\* page, each after the first carrying the token of the page before; only the
\* last page has no token; the entries handed on are exactly the entries of the
\* pages, once each, in page order and in the order within the page.
C4_PaginationYieldsEveryPageOnce ==
    \A i \in 1..Len(paths) :
        LET J == ReqsOf(i) IN
        /\ \A j \in J :
              IF j - 1 \in J
              THEN Truthy(served[j - 1].NextToken)
                   /\ requests[j].NextToken = served[j - 1].NextToken
              ELSE requests[j].NextToken = None
        /\ (PathFinished(i) /\ paths[i] # <<>> /\ AllAnswered(J)) =>
              /\ J # {}
              /\ \A j \in J : Truthy(served[j].NextToken) <=> (j + 1 \in J)
              /\ YieldedOf(yielded, i) = PagesOf(J)
              /\ \A y \in Range(yielded) : y.idx = i => y.basePath = requests[CHOOSE j \in J : TRUE].Path

C4_ThreePagesWalked ==
    \E i \in 1..Len(paths) :
        /\ PathFinished(i) /\ AllAnswered(ReqsOf(i))
        /\ Cardinality(ReqsOf(i)) = 3
        /\ Len(YieldedOf(yielded, i)) >= 4

Failures == {j \in 1..Len(served) : ~served[j].ok}

FailureLogs == {n \in 1..Len(log) : log[n].msg = "Unable to process parameters"}

\* C5 (cloudsecrets): a failed request is logged, is the last request of its
\* path, raises nothing into the consumer, leaves what was yielded before it,
\* and the walk goes on with the next input path.
C5_FailureEndsOnlyThePath ==
    impl = "cloudsecrets" =>
        /\ Cardinality(FailureLogs) = Cardinality(Failures)
        /\ \A j \in Failures :
              /\ \E n \in FailureLogs : log[n].arg = requests[j].Path
              /\ \A k \in ReqsOf(requests[j].idx) : k <= j
              /\ pathIdx > requests[j].idx
              /\ YieldedOf(yielded, requests[j].idx) = PagesOf(ReqsOf(requests[j].idx) \ {j})
        /\ wpc = "raised" => paths[pathIdx] = <<>>
        /\ \A i \in 1..Len(paths) : (i < pathIdx /\ i + 1 <= Len(paths)) =>
              \/ ReqsOf(i + 1) # {}
              \/ pathIdx = i + 1 /\ (wpc \in {"path", "request"} \/ paths[i + 1] = <<>>)

C5_FailedThenWalkedNextPath ==
    /\ impl = "cloudsecrets" /\ wpc = "done" /\ Len(paths) = 2
    /\ \E j \in Failures :
          /\ requests[j].idx = 1
          /\ YieldedOf(yielded, 1) # <<>>
    /\ ReqsOf(2) # {}

\* C8: every request carries a non-empty Path that begins with "/"; an empty
\* input path is never requested but raises (a ValueError into the consumer of
\* the generator, or to main); an input path without a leading "/" is requested
\* with "/" put before it.
C8_RequestPathIsAbsolute ==
    /\ \A j \in 1..Len(requests) :
          /\ requests[j].Path # <<>>
          /\ startswith(requests[j].Path, "/")
          /\ paths[requests[j].idx] # <<>>
          /\ ~startswith(paths[requests[j].idx], "/") =>
                requests[j].Path = <<"/">> \o paths[requests[j].idx]
    /\ \A i \in 1..Len(paths) : (paths[i] = <<>> /\ (pathIdx > i \/ wpc = "raised")) =>
          \/ impl = "cloudsecrets" /\ wpc = "raised" /\ pathIdx = i
          \/ impl = "ssmenv" /\ \E n \in 1..Len(log) :
                 log[n] = Exception("ValueError", paths[i])

\* C8 holds of every input path but "/" itself, which cloudsecrets.py turns
\* into the empty Path.
C8_RequestPathIsAbsoluteUnlessSlash ==
    /\ \A j \in 1..Len(requests) :
          (impl = "ssmenv" \/ paths[requests[j].idx] # <<"/">>) =>
              /\ requests[j].Path # <<>>
              /\ startswith(requests[j].Path, "/")
              /\ paths[requests[j].idx] # <<>>
              /\ ~startswith(paths[requests[j].idx], "/") =>
                    requests[j].Path = <<"/">> \o paths[requests[j].idx]
    /\ \A i \in 1..Len(paths) : (paths[i] = <<>> /\ (pathIdx > i \/ wpc = "raised")) =>
          \/ impl = "cloudsecrets" /\ wpc = "raised" /\ pathIdx = i
          \/ impl = "ssmenv" /\ \E n \in 1..Len(log) :
                 log[n] = Exception("ValueError", paths[i])

-----------------------------------------------------------------------------
(* The stream styles: claims.  What a name is, and the key it maps to, is    *)
(* stated here from the format of the name, not by the regular expressions.  *)

\* the part of a Name after its last "/"
TrailingSegment(name) == Slice(name, RFind(name, "/", Len(name)))

IsShellName(x) ==
    /\ x # <<>>
    /\ x[1] \in Lower \cup Upper \cup {"_"}
    /\ Range(x) \subseteq Lower \cup Upper \cup Digit \cup {"_"}

IsIniWord(x) == x # <<>> /\ Range(x) \subseteq Lower \cup Upper \cup Digit \cup {"_", "-"}

\* the Name with the base path prefix removed
Rel(p) == Slice(p.Name, Len(p.base))

\* the places where rel splits into "/S.N" or "/S/N"
SectionSplits(rel) ==
    {i \in 3..(Len(rel) - 1) :
        /\ rel[1] = "/" /\ rel[i] \in {".", "/"}
        /\ IsIniWord(SubSeq(rel, 2, i - 1))
        /\ IsIniWord(SubSeq(rel, i + 1, Len(rel)))}

IsBare(rel) == startswith(rel, "/") /\ IsIniWord(Tail(rel))

\* the (section, key) pair the claim derives from rel
IniPair(rel) ==
    IF SectionSplits(rel) # {}
    THEN LET i == CHOOSE i \in SectionSplits(rel) : TRUE IN
         [section |-> SubSeq(rel, 2, i - 1), key |-> SubSeq(rel, i + 1, Len(rel))]
    ELSE [section |-> MainSection, key |-> Tail(rel)]

IniAccepts(p) == SectionSplits(Rel(p)) # {} \/ IsBare(Rel(p))

JavaAccepts(p) == Len(Rel(p)) >= 2 /\ Rel(p)[1] = "/"
JavaKey(p) == [i \in 1..(Len(Rel(p)) - 1) |->
                  IF Rel(p)[i + 1] = "/" THEN "." ELSE Rel(p)[i + 1]]

Accepts(p) ==
    CASE style \in ENV_STYLES -> IsShellName(TrailingSegment(p.Name))
      [] style \in INI_STYLES -> IniAccepts(p)
      [] OTHER -> JavaAccepts(p)
Rejects(p) == ~Accepts(p)

IsWarning(r) == r.level = "WARNING"
NamesOf(ps) == [n \in 1..Len(ps) |-> ps[n].Name]
ArgsOf(rs) == [n \in 1..Len(rs) |-> rs[n].arg]

\* the lines of the stream; the text ends with a newline, so the last is empty
LinesOf(text) == Split(text, "\n")
IsComment(line) == startswith(line, "#")

\* the entries of the INI structure as (section, key, value), each with its
\* place in the structure
IniEntries(cfg) ==
    UNION { { [section |-> cfg[i].name, key |-> cfg[i].items[k].key,
               value |-> cfg[i].items[k].value, at |-> <<i, k>>] :
                 k \in 1..Len(cfg[i].items) }
            : i \in 1..Len(cfg) }

PropsEntries(items) ==
    { [section |-> <<>>, key |-> items[k].key, value |-> items[k].value, at |-> <<0, k>>] :
        k \in 1..Len(items) }

\* a name without regard to the case of its letters
Folded(x) == [i \in 1..Len(x) |-> LowerOf(x[i])]

\* the key of an accepted parameter, as the structure of the style holds it
OutputKey(p) ==
    IF style \in INI_STYLES
    THEN [section |-> IniPair(Rel(p)).section, key |-> Folded(IniPair(Rel(p)).key)]
    ELSE [section |-> <<>>, key |-> JavaKey(p)]

\* the entries of the structure of the style
OutputEntries ==
    IF style \in INI_STYLES THEN IniEntries(config)
    ELSE PropsEntries(props)

EntryKey(e) == [section |-> e.section, key |-> e.key]

Accepted == SelectSeq(delivered, Accepts)

ShellSpecial == {" ", "\t", "\n", "$", "\\", "|", "&", ";", "<", ">", "(", ")",
                 "*", "?", "[", "]", "#", "~", "!", "{", "}"}

RECURSIVE ShellWord(_, _, _)
ShellWord(w, mode, text) ==
    IF w = <<>> THEN [ok |-> mode = "plain", text |-> text]
    ELSE LET c == w[1] IN
      CASE mode = "plain" /\ c = "'" -> ShellWord(Tail(w), "single", text)
        [] mode = "plain" /\ c = "\"" -> ShellWord(Tail(w), "double", text)
        [] mode = "plain" /\ c \in ShellSpecial -> [ok |-> FALSE, text |-> text]
        [] mode = "single" /\ c = "'" -> ShellWord(Tail(w), "plain", text)
        [] mode = "double" /\ c = "\"" -> ShellWord(Tail(w), "plain", text)
        [] mode = "double" /\ c \in {"$", "\\"} -> [ok |-> FALSE, text |-> text]
        [] OTHER -> ShellWord(Tail(w), mode, Append(text, c))

ExportWord == <<"e", "x", "p", "o", "r", "t", " ">>

\* text is one record per accepted parameter of ps, in order, in the style st
EnvRecords(ps, text, st) ==
    LET lines == LinesOf(text) IN
    /\ Len(lines) = 2 * Len(ps) + 1
    /\ lines[Len(lines)] = <<>>
    /\ \A n \in 1..Len(ps) :
         LET head == (IF st = "bash" THEN ExportWord ELSE <<>>)
                       \o TrailingSegment(ps[n].Name) \o <<"=">>
             line == lines[2 * n]
             word == Slice(line, Len(head))
         IN /\ lines[2 * n - 1] = <<"#", " ">> \o ps[n].Name
            /\ IsPrefix(head, line)
            /\ IF st \in {"bash", "dotenv"}
               THEN ShellWord(word, "plain", <<>>) = [ok |-> TRUE, text |-> ps[n].Value]
               ELSE word = ps[n].Value

\* C9: under the env styles the stream is, for every accepted parameter in
\* delivery order and for nothing else, the line "# <Name>" and then the line
\* "<name>=<value>", led by "export " exactly for bash, where <name> is the
\* trailing segment of the Name and <value> is the raw Value for docker and
\* for bash and dotenv a single shell word that the shell reads back as the
\* Value.
C9_EnvRecordFormat ==
    style \in ENV_STYLES => EnvRecords(Accepted, fh, style)

\* a bash run that wrote a value that needs quoting
C9_QuotedRecordWritten ==
    /\ style = "bash" /\ Len(Accepted) >= 1 /\ fh # <<>>
    /\ \E n \in 1..Len(Accepted) : "'" \in Range(Accepted[n].Value)

\* ssmenv.py writes the same records for the parameters of its pages
EnvRecordsOfSsmenv ==
    impl = "ssmenv" =>
      EnvRecords(SelectSeq([n \in 1..Len(yielded) |-> yielded[n].param], Accepts), fh, style)

\* C10: for the parameter the INI emitter handled last, with rel its Name
\* without the base path: rel of the form "/S.N" or "/S/N" leaves the value
\* under section S and key N, rel of the form "/N" leaves it under section
\* "main" and key N, and any other rel is skipped with a warning.
C10_IniKeyDerivation ==
    (style \in INI_STYLES /\ pc = "run" /\ delivered # <<>>) =>
      LET p == delivered[Len(delivered)] IN
      IF IniAccepts(p)
      THEN \E e \in IniEntries(config) :
             /\ e.section = IniPair(Rel(p)).section
             /\ e.key = IniPair(Rel(p)).key
             /\ e.value = p.Value
      ELSE /\ log # <<>> /\ IsWarning(log[Len(log)]) /\ log[Len(log)].arg = p.Name
           /\ Cardinality(IniEntries(config)) <= Len(delivered) - 1

\* the same with the key as the structure holds it, in lower case
C10_IniKeyDerivationLowercased ==
    (style \in INI_STYLES /\ pc = "run" /\ delivered # <<>>) =>
      LET p == delivered[Len(delivered)] IN
      IF IniAccepts(p)
      THEN \E e \in IniEntries(config) :
             /\ e.section = IniPair(Rel(p)).section
             /\ e.key = Folded(IniPair(Rel(p)).key)
             /\ e.value = p.Value
      ELSE /\ log # <<>> /\ IsWarning(log[Len(log)]) /\ log[Len(log)].arg = p.Name
           /\ Cardinality(IniEntries(config)) <= Len(delivered) - 1

\* the INI emitter handled a name with a section and one without
C10_SectionAndMainStored ==
    /\ style \in INI_STYLES /\ pc = "run"
    /\ \E e \in IniEntries(config) : e.section = MainSection
    /\ \E e \in IniEntries(config) : e.section # MainSection

-----------------------------------------------------------------------------
(* The directory style: the order of a leaf and the directory of its name *)

\* the key of a delivered parameter below its base path, as path segments
RelKey(p) == Split(Slice(p.Name, Len(p.base) + 1), "/")

\* a key of name segments only: none is empty, "." or ".."
PlainKey(k) == \A n \in 1..Len(k) : k[n] \notin {<<>>, <<".">>, <<".", ".">>}

\* k is a proper path prefix of kx
ProperPathPrefix(k, kx) == Len(k) < Len(kx) /\ SubSeq(kx, 1, Len(k)) = k

\* the run began with the output root an empty directory: the root is a
\* directory the run did not make, and all that is below it the run made
RootWasEmpty ==
    /\ isdir(fs, outputDir) /\ outputDir \notin touched
    /\ \A p \in DOMAIN fs : StrictlyInside(p) => p \in touched

\* the tree the two parameters pk (key k) and pkx (key k/x) are to leave
LeafAndDirectoryTree(pk, pkx) ==
    LET k == outputDir \o RelKey(pk)
        kx == outputDir \o RelKey(pkx)
    IN /\ isdir(fs, k)
       /\ isfile(fs, Append(k, DotValue)) /\ fs[Append(k, DotValue)].content = pk.Value
       /\ isfile(fs, kx) /\ fs[kx].content = pkx.Value

\* the two parameters of the run, delivered as a then b, have keys k and k/x
\* in one order or the other
LeafAndDirectoryRun ==
    /\ Len(delivered) = 2 /\ RootWasEmpty
    /\ delivered[1].base = delivered[2].base
    /\ PlainKey(RelKey(delivered[1])) /\ PlainKey(RelKey(delivered[2]))
    /\ \/ ProperPathPrefix(RelKey(delivered[1]), RelKey(delivered[2]))
       \/ ProperPathPrefix(RelKey(delivered[2]), RelKey(delivered[1]))

\* C11: in a run of the directory style that starts from an empty output root
\* and delivers two parameters with keys k and k/x, in either order, k is a
\* directory afterwards, k/.value holds the value of the parameter k and k/x
\* holds the value of the parameter k/x.
C11_LeafAndDirectoryInEitherOrder ==
    LeafAndDirectoryRun =>
      IF ProperPathPrefix(RelKey(delivered[1]), RelKey(delivered[2]))
      THEN LeafAndDirectoryTree(delivered[1], delivered[2])
      ELSE LeafAndDirectoryTree(delivered[2], delivered[1])

\* C11 holds when k comes first, k lies directly in the root and x is one
\* segment other than ".value"
C11_LeafFirstOneSegment ==
    (/\ LeafAndDirectoryRun
     /\ Len(RelKey(delivered[1])) = 1
     /\ ProperPathPrefix(RelKey(delivered[1]), RelKey(delivered[2]))
     /\ Len(RelKey(delivered[2])) = Len(RelKey(delivered[1])) + 1
     /\ RelKey(delivered[2])[Len(RelKey(delivered[2]))] # DotValue)
    => LeafAndDirectoryTree(delivered[1], delivered[2])

\* a run that delivered k/x before k
C11_DirectoryFirstRun ==
    /\ LeafAndDirectoryRun
    /\ ProperPathPrefix(RelKey(delivered[2]), RelKey(delivered[1]))

====
